---- MODULE Spec2Model ----
(***************************************************************************)
(* A model of apitoolbox.registry (RegistryItem, the removal strategies,   *)
(* Registry and its cleanup thread) and of apitoolbox.db_registry (the     *)
(* process-wide engine registry built on it).                              *)
(*                                                                         *)
(* Time is a discrete clock `now` (time.time()).  Every Registry method    *)
(* runs inside `with self._lock`, so one method call is one action.  A     *)
(* close callback is caller-supplied code: the result of each of its       *)
(* invocations is an input of the action that invokes it.  The callback    *)
(* db_registry.register installs is modelled by what it does: it asks the  *)
(* engine's pool for its checkouts and disposes of the engine.  The        *)
(* functions of db_registry take no lock of their own, so each of their    *)
(* statements that touches the registry or a global is an action.          *)
(***************************************************************************)
EXTENDS Integers, Sequences, FiniteSets, TLC

\* ------------------------------------------------------------------ bounds
MaxTime == 3
MaxTtl == 1
MaxEngines == 2
MaxCheckedout == 1

\* ------------------------------------------------------------- value sets
\* Python's None (ttl, expiration_time, close_callback, a missing value)
Nil == -1

Keys == {"a", "b"}
Values == {1, 2}
\* the values the clients store under key k: two under "a", to tell one set from
\* the next, and one under the other key
ValuesAt(k) == IF k = "a" THEN Values ELSE {1}
Callbacks == {Nil, 1}
Ttls == {Nil} \cup (1 .. MaxTtl)
Regs == {1, 2}
Threads == {1, 2}
\* The connection URLs clients pass: "a" and "b" as make_url renders them, and
\* "A", another spelling of "a"
Urls == {"a", "A", "b"}

\* Python truthiness of `float | None` (`if ttl`, `if not self.expiration_time`)
Truthy(x) == x # Nil /\ x # 0

\* --------------------------------------------------------- RegistryItem
\* dict.get(key) of a missing key
NoItem == [none |-> TRUE]

\* RegistryItem.__init__ at time t
RegistryItem(value, ttl, close_callback, t) ==
    [value |-> value,
     ttl |-> ttl,
     expiration_time |-> IF Truthy(ttl) THEN t + ttl ELSE Nil,
     close_callback |-> close_callback]

\* is_expired with the deadline itself counted as expired
is_expired_at_deadline(item, t) ==
    IF ~Truthy(item.expiration_time) THEN FALSE ELSE t >= item.expiration_time

is_expired(item, t) ==
    IF ~Truthy(item.expiration_time) THEN FALSE ELSE t > item.expiration_time

\* refresh_expiry that leaves the deadline as it is
refresh_expiry_noop(item, t) == item

refresh_expiry(item, t) ==
    IF ~Truthy(item.ttl) THEN item ELSE [item EXCEPT !.expiration_time = t + item.ttl]

\* RegistryItem.close: `outcome` is what the callback returns if it is invoked;
\* calls lists the results of the callback invocations made.
close(item, outcome) ==
    IF item.close_callback = Nil
    THEN [result |-> TRUE, calls |-> <<>>]
    ELSE [result |-> outcome, calls |-> <<outcome>>]

\* ------------------------------------------------------ the _items dict
\* A dict is a sequence of [key, item] in insertion order.
HasKey(m, k) == \E i \in 1 .. Len(m) : m[i].key = k
KeyIndex(m, k) == CHOOSE i \in 1 .. Len(m) : m[i].key = k
KeysOf(m) == {m[i].key : i \in 1 .. Len(m)}

\* Registry.get_item: self._items.get(key)
get_item(m, k) == IF HasKey(m, k) THEN m[KeyIndex(m, k)].item ELSE NoItem

\* dict.setdefault instead of assignment: an existing entry is kept
PutItem_setdefault(m, k, item) ==
    IF HasKey(m, k) THEN m ELSE Append(m, [key |-> k, item |-> item])

\* self._items[key] = item
PutItem(m, k, item) ==
    IF HasKey(m, k)
    THEN [m EXCEPT ![KeyIndex(m, k)].item = item]
    ELSE Append(m, [key |-> k, item |-> item])

\* a pop that empties the dict
remove_item_all(m, k) == <<>>

\* Registry._remove_item: self._items.pop(key, None)
remove_item(m, k) == SelectSeq(m, LAMBDA e : e.key # k)

\* ---------------------------------------------------- removal strategies
\* A strategy run returns the dict afterwards, the reported result, the
\* results of the close-callback invocations it made and, per stage executed,
\* the result that stage reported.
CloseOutcomes == {<<a, b>> : a \in BOOLEAN, b \in BOOLEAN}

CloseItemOnRemoveStrategy == [kind |-> "close", strategies |-> <<>>, break_on_failure |-> TRUE]
RemoveItemStrategy == [kind |-> "remove", strategies |-> <<>>, break_on_failure |-> TRUE]
CompositeRemoveItemStrategy(strategies, break_on_failure) ==
    [kind |-> "composite", strategies |-> strategies, break_on_failure |-> break_on_failure]

\* Registry.__init__: the strategy used when none is supplied
DefaultStrategy ==
    CompositeRemoveItemStrategy(<<CloseItemOnRemoveStrategy, RemoveItemStrategy>>, TRUE)

\* a close-only strategy that deletes the entry it has closed
CloseItemOnRemove_deleting(m, k, oc) ==
    IF get_item(m, k) = NoItem
    THEN [map |-> m, result |-> FALSE, closes |-> <<>>, trace |-> <<FALSE>>]
    ELSE [map |-> IF close(get_item(m, k), oc[1]).result THEN remove_item(m, k) ELSE m,
          result |-> close(get_item(m, k), oc[1]).result,
          closes |-> close(get_item(m, k), oc[1]).calls \o close(get_item(m, k), oc[2]).calls,
          trace |-> <<close(get_item(m, k), oc[1]).result>>]

\* CloseItemOnRemoveStrategy.remove: item.close() is called at line 65 and
\* again in the condition of line 66; the first result is returned.
CloseItemOnRemove(m, k, oc) ==
    LET item == get_item(m, k) IN
    IF item = NoItem
    THEN [map |-> m, result |-> FALSE, closes |-> <<>>, trace |-> <<FALSE>>]
    ELSE LET is_closed_successfully == close(item, oc[1])
             logged == close(item, oc[2])
         IN [map |-> m,
             result |-> is_closed_successfully.result,
             closes |-> is_closed_successfully.calls \o logged.calls,
             trace |-> <<is_closed_successfully.result>>]

\* a removal that clears the dict when the key is missing
RemoveItem_clearing(m, k) ==
    IF get_item(m, k) = NoItem
    THEN [map |-> <<>>, result |-> FALSE, closes |-> <<>>, trace |-> <<FALSE>>]
    ELSE [map |-> remove_item(m, k), result |-> TRUE, closes |-> <<>>, trace |-> <<TRUE>>]

\* a removal that also invokes the close callback of the item it deletes
RemoveItem_closing(m, k) ==
    IF get_item(m, k) = NoItem
    THEN [map |-> m, result |-> FALSE, closes |-> <<>>, trace |-> <<FALSE>>]
    ELSE [map |-> remove_item(m, k), result |-> TRUE,
          closes |-> close(get_item(m, k), TRUE).calls, trace |-> <<TRUE>>]

\* RemoveItemStrategy.remove
RemoveItem(m, k) ==
    IF get_item(m, k) = NoItem
    THEN [map |-> m, result |-> FALSE, closes |-> <<>>, trace |-> <<FALSE>>]
    ELSE [map |-> remove_item(m, k), result |-> TRUE, closes |-> <<>>, trace |-> <<TRUE>>]

StageRemove(s, m, k, oc) ==
    IF s.kind = "close" THEN CloseItemOnRemove(m, k, oc) ELSE RemoveItem(m, k)

\* a composite that never returns early
BreaksOff_never(result, break_on_failure) == FALSE

\* a composite that returns early on the first success
BreaksOff_on_success(result, break_on_failure) == result /\ break_on_failure

\* The decision of CompositeRemoveItemStrategy.remove after one stage:
\* TRUE when the loop returns False at once.
BreaksOff(result, break_on_failure) == ~result /\ break_on_failure

\* CompositeRemoveItemStrategy.remove, from stage i on
RECURSIVE CompositeFrom(_, _, _, _, _, _, _)
CompositeFrom(s, i, m, k, oc, closes, trace) ==
    IF i > Len(s.strategies)
    THEN [map |-> m, result |-> TRUE, closes |-> closes, trace |-> trace]
    ELSE LET st == StageRemove(s.strategies[i], m, k, oc) IN
         IF BreaksOff(st.result, s.break_on_failure)
         THEN [map |-> st.map, result |-> FALSE,
               closes |-> closes \o st.closes, trace |-> trace \o st.trace]
         ELSE CompositeFrom(s, i + 1, st.map, k, oc,
                            closes \o st.closes, trace \o st.trace)

CompositeRemove(s, m, k, oc) == CompositeFrom(s, 1, m, k, oc, <<>>, <<>>)

\* self._remove_item_strategy.remove(self, key)
StrategyRemove(s, m, k, oc) ==
    IF s.kind = "composite" THEN CompositeRemove(s, m, k, oc) ELSE StageRemove(s, m, k, oc)

\* The strategies a Registry is constructed with in this model
Strategies ==
    {DefaultStrategy,
     CloseItemOnRemoveStrategy,
     CompositeRemoveItemStrategy(<<CloseItemOnRemoveStrategy, RemoveItemStrategy>>, FALSE),
     CompositeRemoveItemStrategy(
         <<RemoveItemStrategy, CloseItemOnRemoveStrategy, RemoveItemStrategy>>, TRUE)}

\* ------------------------------------------------------------------ state
VARIABLES
    now,        \* time.time()
    conf,       \* per registry: cleanup interval set, refresh_on_get, strategy
    items,      \* per registry: the _items dict
    sweeper,    \* per registry: state of _cleanup_thread
    disposed,   \* per registry: the registry object has been disposed of
    last,       \* the last method call: its name, key, return value, the results
                \* of the close callbacks it invoked and of the stages it ran
    db,         \* db_registry: __ENGINE_REGISTRY, __REGISTRY_ITEM_TTL, the call of
                \* recreate_db_registry in progress, and the engines: per engine
                \* number its url, what pool.checkedout() reports, whether
                \* dispose() has been called, and who built it
    calls       \* per thread: its call of db_registry.get_or_create or register
                \* in progress, with the engine registry's dict at its start

vars == <<now, conf, items, sweeper, disposed, last, db, calls>>

NoCloses == [k \in Keys |-> <<>>]

\* op, reg, key, arg: the call; ret: what it returned; per key, closes: the results
\* of the close-callback invocations made, trace: the result of each strategy
\* stage executed, result: what the removal strategy reported (if it ran)
Log(op, r, k, arg, ret, closes, trace, result) ==
    [op |-> op, reg |-> r, key |-> k, arg |-> arg, ret |-> ret,
     closes |-> closes, trace |-> trace, result |-> result]

\* Registry.__init__
NewRegistry(cleanup_interval, refresh_on_get, strategy) ==
    [cleanup_interval |-> cleanup_interval,
     refresh_on_get |-> refresh_on_get,
     strategy |-> strategy]

\* Registry.__init__: the cleanup thread is started iff an interval is given
StartSweeper(c) == IF c.cleanup_interval THEN "running" ELSE "none"

\* A thread that is not inside db_registry
NoCall == [pc |-> "idle", op |-> "", url |-> "", engine |-> Nil, ret |-> Nil, before |-> <<>>]

\* No call of recreate_db_registry is in progress
NoRecreate == [pc |-> "idle", previous_registry |-> Nil, new_registry |-> Nil, item_ttl |-> Nil]

\* db_registry after import: recreate_db_registry() with the defaults of
\* settings.py has made registry 1 the engine registry, without item ttl
DbAtImport ==
    [engine_registry |-> 1, item_ttl |-> Nil,
     engines |-> <<>>, checkedout |-> <<>>, dispose_called |-> <<>>, maker |-> <<>>,
     recreate |-> NoRecreate]

\* Registry number 1 is constructed with configuration c
InitWith(c) ==
    /\ now = 1
    /\ conf = [r \in Regs |-> c]
    /\ items = [r \in Regs |-> <<>>]
    /\ sweeper = [r \in Regs |-> IF r = 1 THEN StartSweeper(c) ELSE "none"]
    /\ disposed = [r \in Regs |-> FALSE]
    /\ last = Log("init", 1, "a", Nil, Nil, NoCloses, NoCloses, NoCloses)
    /\ db = DbAtImport
    /\ calls = [t \in Threads |-> NoCall]

\* One Registry with the default removal strategy and any other settings
Init ==
    \E c \in BOOLEAN, f \in BOOLEAN : InitWith(NewRegistry(c, f, DefaultStrategy))

\* ----------------------------------------------------------------- actions
\* time passes
Tick ==
    /\ now < MaxTime
    /\ now' = now + 1
    /\ UNCHANGED <<conf, items, sweeper, disposed, last, db, calls>>

\* a set that first removes the entry in place through the removal strategy
RegistrySet_removing(r, k, value, ttl, cb) ==
    LET rm == StrategyRemove(conf[r].strategy, items[r], k, <<TRUE, TRUE>>) IN
    /\ items' = [items EXCEPT ![r] = PutItem(rm.map, k, RegistryItem(value, ttl, cb, now))]
    /\ last' = Log("set", r, k, value, Nil, [NoCloses EXCEPT ![k] = rm.closes],
                   [NoCloses EXCEPT ![k] = rm.trace], NoCloses)
    /\ UNCHANGED <<now, conf, sweeper, disposed, db, calls>>

\* Registry.set
RegistrySet(r, k, value, ttl, cb) ==
    /\ items' = [items EXCEPT ![r] = PutItem(@, k, RegistryItem(value, ttl, cb, now))]
    /\ last' = Log("set", r, k, value, Nil, NoCloses, NoCloses, NoCloses)
    /\ UNCHANGED <<now, conf, sweeper, disposed, db, calls>>

\* Registry.get: what it leaves in the dict and what it returns
GetResult(c, m, k, oc, t) ==
    LET item == get_item(m, k) IN
    IF item = NoItem
    THEN [map |-> m, ret |-> Nil, closes |-> <<>>, trace |-> <<>>, result |-> <<>>]
    ELSE LET expired == is_expired(item, t)
             rm == StrategyRemove(c.strategy, m, k, oc)
             removal == IF expired
                        THEN [map |-> rm.map, closes |-> rm.closes, trace |-> rm.trace,
                              result |-> <<rm.result>>]
                        ELSE [map |-> m, closes |-> <<>>, trace |-> <<>>, result |-> <<>>]
         IN IF expired /\ get_item(removal.map, k) = NoItem
            THEN [map |-> removal.map, ret |-> Nil, closes |-> removal.closes,
                  trace |-> removal.trace, result |-> removal.result]
            ELSE [map |-> IF c.refresh_on_get
                          THEN PutItem(removal.map, k, refresh_expiry(item, t))
                          ELSE removal.map,
                  ret |-> item.value, closes |-> removal.closes,
                  trace |-> removal.trace, result |-> removal.result]

RegistryGet(r, k, oc) ==
    LET g == GetResult(conf[r], items[r], k, oc, now) IN
    /\ items' = [items EXCEPT ![r] = g.map]
    /\ last' = Log("get", r, k, Nil, g.ret, [NoCloses EXCEPT ![k] = g.closes],
                   [NoCloses EXCEPT ![k] = g.trace], [NoCloses EXCEPT ![k] = g.result])
    /\ UNCHANGED <<now, conf, sweeper, disposed, db, calls>>

\* Registry.remove
RegistryRemove(r, k, oc) ==
    LET rm == StrategyRemove(conf[r].strategy, items[r], k, oc) IN
    /\ items' = [items EXCEPT ![r] = rm.map]
    /\ last' = Log("remove", r, k, Nil, Nil, [NoCloses EXCEPT ![k] = rm.closes],
                   [NoCloses EXCEPT ![k] = rm.trace], [NoCloses EXCEPT ![k] = <<rm.result>>])
    /\ UNCHANGED <<now, conf, sweeper, disposed, db, calls>>

\* Registry.__len__
RegistryLen(r) ==
    /\ last' = Log("len", r, "a", Nil, Len(items[r]), NoCloses, NoCloses, NoCloses)
    /\ UNCHANGED <<now, conf, items, sweeper, disposed, db, calls>>

\* a sweep that handles only the first expired key
ExpiredKeys_first(m, t) ==
    LET expired == SelectSeq(m, LAMBDA e : is_expired(e.item, t)) IN
    [i \in 1 .. (IF Len(expired) > 0 THEN 1 ELSE 0) |-> expired[i].key]

\* a sweep that takes every key for expired
ExpiredKeys_all(m, t) == [i \in 1 .. Len(m) |-> m[i].key]

\* Registry._cleanup: the keys whose item is expired, in dict order
ExpiredKeys(m, t) ==
    LET expired == SelectSeq(m, LAMBDA e : is_expired(e.item, t)) IN
    [i \in 1 .. Len(expired) |-> expired[i].key]

\* Registry._cleanup: `for key in expired_keys: self.remove(key)`, from key i on
RECURSIVE CleanupFrom(_, _, _, _, _, _)
CleanupFrom(s, expired_keys, i, m, ocs, log) ==
    IF i > Len(expired_keys)
    THEN [map |-> m, closes |-> log.closes, trace |-> log.trace, result |-> log.result]
    ELSE LET k == expired_keys[i]
             rm == StrategyRemove(s, m, k, ocs[k])
         IN CleanupFrom(s, expired_keys, i + 1, rm.map, ocs,
                        [closes |-> [log.closes EXCEPT ![k] = rm.closes],
                         trace |-> [log.trace EXCEPT ![k] = rm.trace],
                         result |-> [log.result EXCEPT ![k] = <<rm.result>>]])

CleanupResult(c, m, ocs, t) ==
    CleanupFrom(c.strategy, ExpiredKeys(m, t), 1, m, ocs,
                [closes |-> NoCloses, trace |-> NoCloses, result |-> NoCloses])

\* One cycle of Registry._cleanup_task: the sleep is over and _cleanup runs
Cleanup(r, ocs) ==
    /\ sweeper[r] = "running"
    /\ LET cl == CleanupResult(conf[r], items[r], ocs, now) IN
       /\ items' = [items EXCEPT ![r] = cl.map]
       /\ last' = Log("cleanup", r, "a", Nil, Nil, cl.closes, cl.trace, cl.result)
    /\ UNCHANGED <<now, conf, sweeper, disposed, db, calls>>

\* Disposal of the Registry object (`registry.__del__()`, `del registry`): the
\* class defines no __del__ and no stop event, and _cleanup_task loops
\* `while True`, so nothing reaches the cleanup thread.
Dispose(r) ==
    /\ ~disposed[r]
    /\ disposed' = [disposed EXCEPT ![r] = TRUE]
    /\ last' = Log("del", r, "a", Nil, Nil, NoCloses, NoCloses, NoCloses)
    /\ UNCHANGED <<now, conf, items, sweeper, db, calls>>

\* The results a close callback can give when called twice on the item at k: a
\* missing item or one without callback invokes nothing, and one result stands
\* for all.
OutcomesFor(m, k) ==
    IF get_item(m, k) = NoItem \/ get_item(m, k).close_callback = Nil
    THEN {<<TRUE, TRUE>>}
    ELSE CloseOutcomes

OutcomesForAll(m) ==
    {ocs \in [Keys -> CloseOutcomes] : \A k \in Keys : ocs[k] \in OutcomesFor(m, k)}

\* The calls of the clients of registry 1 and its cleanup thread
Next ==
    \/ Tick
    \/ \E k \in Keys, ttl \in Ttls, cb \in Callbacks :
          \E v \in ValuesAt(k) : RegistrySet(1, k, v, ttl, cb)
    \/ \E k \in Keys : \E oc \in OutcomesFor(items[1], k) : RegistryGet(1, k, oc)
    \/ \E k \in Keys : \E oc \in OutcomesFor(items[1], k) : RegistryRemove(1, k, oc)
    \/ RegistryLen(1)
    \/ \E ocs \in OutcomesForAll(items[1]) : Cleanup(1, ocs)

Spec == Init /\ [][Next]_vars

\* ------------------------------------------------- disposal of a Registry
\* A Registry with a cleanup interval, used through one key, and disposed of
InitLifecycle ==
    \E f \in BOOLEAN : InitWith(NewRegistry(TRUE, f, DefaultStrategy))

NextLifecycle ==
    \/ Tick
    \/ \E v \in Values, ttl \in Ttls, cb \in Callbacks : RegistrySet(1, "a", v, ttl, cb)
    \/ \E oc \in OutcomesFor(items[1], "a") : RegistryGet(1, "a", oc)
    \/ \E ocs \in OutcomesForAll(items[1]) : Cleanup(1, ocs)
    \/ Dispose(1)

SpecLifecycle == InitLifecycle /\ [][NextLifecycle]_vars

\* ------------------------------------- a Registry with a supplied strategy
InitStrategies ==
    \E s \in Strategies : InitWith(NewRegistry(FALSE, FALSE, s))

NextStrategies ==
    \/ Tick
    \/ \E k \in Keys, ttl \in Ttls, cb \in Callbacks :
          \E v \in ValuesAt(k) : RegistrySet(1, k, v, ttl, cb)
    \/ \E k \in Keys : \E oc \in OutcomesFor(items[1], k) : RegistryGet(1, k, oc)
    \/ \E k \in Keys : \E oc \in OutcomesFor(items[1], k) : RegistryRemove(1, k, oc)
    \/ RegistryLen(1)

SpecStrategies == InitStrategies /\ [][NextStrategies]_vars

\* ------------------------------------------------ items with a ttl of zero
\* The ttls of the clients that also pass 0
TtlsFromZero == Ttls \cup {0}

InitZeroTtl ==
    \E f \in BOOLEAN : InitWith(NewRegistry(FALSE, f, DefaultStrategy))

NextZeroTtl ==
    \/ Tick
    \/ \E k \in Keys, ttl \in TtlsFromZero, cb \in Callbacks : RegistrySet(1, k, 1, ttl, cb)
    \/ \E k \in Keys : \E oc \in OutcomesFor(items[1], k) : RegistryGet(1, k, oc)

SpecZeroTtl == InitZeroTtl /\ [][NextZeroTtl]_vars

\* ------------------------------- a Registry that only deletes on removal
\* A Registry constructed with remove_item_strategy=RemoveItemStrategy()
InitRemoveOnly == InitWith(NewRegistry(FALSE, FALSE, RemoveItemStrategy))

SpecRemoveOnly == InitRemoveOnly /\ [][NextStrategies]_vars

\* ------------------------------------------------------- Registry.get_item
\* a get_item that does what get does, with a callback that succeeds
RegistryGetItem_as_get(r, k) ==
    LET g == GetResult(conf[r], items[r], k, <<TRUE, TRUE>>, now) IN
    /\ items' = [items EXCEPT ![r] = g.map]
    /\ last' = Log("get_item", r, k, Nil, get_item(items[r], k),
                   [NoCloses EXCEPT ![k] = g.closes], [NoCloses EXCEPT ![k] = g.trace],
                   NoCloses)
    /\ UNCHANGED <<now, conf, sweeper, disposed, db, calls>>

\* Registry.get_item: self._items.get(key) is returned (NoItem for None)
RegistryGetItem(r, k) ==
    /\ last' = Log("get_item", r, k, Nil, get_item(items[r], k),
                   NoCloses, NoCloses, NoCloses)
    /\ UNCHANGED <<now, conf, items, sweeper, disposed, db, calls>>

\* A Registry without cleanup thread, with or without refresh_on_get
InitGetItem ==
    \E f \in BOOLEAN : InitWith(NewRegistry(FALSE, f, DefaultStrategy))

NextGetItem ==
    \/ Tick
    \/ \E k \in Keys, ttl \in Ttls, cb \in Callbacks : RegistrySet(1, k, 1, ttl, cb)
    \/ \E k \in Keys : \E oc \in OutcomesFor(items[1], k) : RegistryGet(1, k, oc)
    \/ \E k \in Keys : RegistryGetItem(1, k)

SpecGetItem == InitGetItem /\ [][NextGetItem]_vars

\* ----------------------------------------- a sweep whose callback raises
\* One cycle of Registry._cleanup_task in which the close callback of the j-th
\* expired key raises, in its first invocation (line 65) or its second (line
\* 66) after the first returned: the keys before it are handled, then the
\* exception leaves the strategy's close stage, remove, _cleanup and the
\* `while True` loop of _cleanup_task, none of which catches it, and the
\* thread ends.
CleanupRaising(r, ocs, j, invocation) ==
    LET expired_keys == ExpiredKeys(items[r], now) IN
    /\ sweeper[r] = "running"
    /\ conf[r].strategy \in {DefaultStrategy, CloseItemOnRemoveStrategy}
    /\ j \in 1 .. Len(expired_keys)
    /\ get_item(items[r], expired_keys[j]).close_callback # Nil
    /\ LET k == expired_keys[j]
           cl == CleanupFrom(conf[r].strategy, SubSeq(expired_keys, 1, j - 1), 1, items[r], ocs,
                             [closes |-> NoCloses, trace |-> NoCloses, result |-> NoCloses])
       IN /\ items' = [items EXCEPT ![r] = cl.map]
          /\ last' = Log("cleanup_raised", r, k, Nil, Nil,
                         [cl.closes EXCEPT ![k] = SubSeq(<<ocs[k][1]>>, 1, invocation - 1)],
                         cl.trace, cl.result)
    /\ sweeper' = [sweeper EXCEPT ![r] = "dead"]
    /\ UNCHANGED <<now, conf, disposed, db, calls>>

\* A Registry with a cleanup interval and the default strategy
InitSweep == InitWith(NewRegistry(TRUE, FALSE, DefaultStrategy))

NextSweep ==
    \/ Tick
    \/ \E k \in Keys, ttl \in Ttls, cb \in Callbacks : RegistrySet(1, k, 1, ttl, cb)
    \/ \E ocs \in OutcomesForAll(items[1]) : Cleanup(1, ocs)
    \/ \E ocs \in OutcomesForAll(items[1]), j \in 1 .. Cardinality(Keys), invocation \in {1, 2} :
          CleanupRaising(1, ocs, j, invocation)

SpecSweep == InitSweep /\ [][NextSweep]_vars

\* ---------------------------------------------------------------- copy_to
\* a copy that forgets the ttl
CopiedItem_without_ttl(item, t) ==
    RegistryItem(item.value, Nil, item.close_callback, t)

\* a copy that carries the source's absolute deadline over
CopiedItem_same_deadline(item, t) == item

\* Registry.copy_to: the item other.set(...) builds from a source item at time t
CopiedItem(item, t) ==
    RegistryItem(item.value, item.ttl, item.close_callback, t)

\* Registry.copy_to: `for key, item in self._items.items(): other.set(...)`,
\* from entry i of the source dict on
RECURSIVE CopyFrom(_, _, _, _)
CopyFrom(source, i, dest, t) ==
    IF i > Len(source)
    THEN dest
    ELSE CopyFrom(source, i + 1,
                  PutItem(dest, source[i].key, CopiedItem(source[i].item, t)), t)

\* a copy that re-inserts the entries into the source as well
CopyTo_into_both(src, dst) ==
    /\ src # dst
    /\ items' = [items EXCEPT ![dst] = CopyFrom(items[src], 1, @, now),
                              ![src] = CopyFrom(items[src], 1, @, now)]
    /\ last' = Log("copy_to", src, "a", dst, Nil, NoCloses, NoCloses, NoCloses)
    /\ UNCHANGED <<now, conf, sweeper, disposed, db, calls>>

\* Registry.copy_to, src.copy_to(dst) for two distinct registries
CopyTo(src, dst) ==
    /\ src # dst
    /\ items' = [items EXCEPT ![dst] = CopyFrom(items[src], 1, @, now)]
    /\ last' = Log("copy_to", src, "a", dst, Nil, NoCloses, NoCloses, NoCloses)
    /\ UNCHANGED <<now, conf, sweeper, disposed, db, calls>>

\* The items a client can have stored under k at time 1
ItemsAt(k) ==
    {RegistryItem(v, ttl, cb, 1) : v \in ValuesAt(k), ttl \in Ttls, cb \in Callbacks}

\* The dicts set() calls at time 1 can have built: at most one entry per key,
\* in either order
DictsAtStart ==
    {<<>>}
    \cup {PutItem(<<>>, k, it) : k \in Keys, it \in UNION {ItemsAt(j) : j \in Keys}}
    \cup {PutItem(PutItem(<<>>, k1, it1), k2, it2) :
              k1 \in Keys, k2 \in Keys,
              it1 \in UNION {ItemsAt(j) : j \in Keys},
              it2 \in UNION {ItemsAt(j) : j \in Keys}}

StoredAt(m) == \A i \in 1 .. Len(m) : m[i].item \in ItemsAt(m[i].key)

\* Registry 1 (the source) holds any entries; registry 2 (the destination) is
\* empty or holds an entry for "a" already.
InitCopy ==
    /\ now = 1
    /\ conf = [r \in Regs |-> NewRegistry(FALSE, FALSE, DefaultStrategy)]
    /\ \E source \in {m \in DictsAtStart : StoredAt(m)},
          dest \in {<<>>, PutItem(<<>>, "a", RegistryItem(2, Nil, Nil, 1))} :
          items = [r \in Regs |-> IF r = 1 THEN source ELSE dest]
    /\ sweeper = [r \in Regs |-> "none"]
    /\ disposed = [r \in Regs |-> FALSE]
    /\ last = Log("init", 1, "a", Nil, Nil, NoCloses, NoCloses, NoCloses)
    /\ db = DbAtImport
    /\ calls = [t \in Threads |-> NoCall]

NextCopy ==
    \/ Tick
    \/ CopyTo(1, 2)
    \/ \E k \in Keys : \E oc \in OutcomesFor(items[1], k) : RegistryRemove(1, k, oc)

SpecCopy == InitCopy /\ [][NextCopy]_vars

\* ------------------------------------------------------------ db_registry
\* str(make_url(str(url))): the rendering of a connection URL, one string per
\* target
make_url(url) == IF url = "A" THEN "a" ELSE url

\* settings.py: the defaults recreate_db_registry() is called with at import
DefaultDbRegistry == NewRegistry(FALSE, FALSE, DefaultStrategy)

\* _remove_item_strategy_factory, with Registry.__init__ putting the default
\* strategy in place of None
remove_item_strategy_factory(strategy_enum) ==
    IF strategy_enum = "dispose_engine" THEN CloseItemOnRemoveStrategy ELSE DefaultStrategy

\* a callback that disposes of the engine whatever its pool reports
engine_may_close_always(d, e) == TRUE

\* a callback that never disposes of the engine
engine_may_close_never(d, e) == FALSE

\* register, lines 48-55, the close callback: the engine is disposed of, and
\* success reported, when its pool has no checkedout() or reports 0
engine_may_close(d, e) == d.checkedout[e] = Nil \/ d.checkedout[e] = 0

\* The results of the two invocations of that callback on the item at k
EngineOutcome(d, m, k) ==
    IF get_item(m, k) = NoItem \/ get_item(m, k).close_callback = Nil
    THEN <<TRUE, TRUE>>
    ELSE <<engine_may_close(d, get_item(m, k).value), engine_may_close(d, get_item(m, k).value)>>

EngineOutcomes(d, m) == [k \in Keys |-> EngineOutcome(d, m, k)]

\* register, line 54: _engine.dispose() has been called on the engines whose
\* callback was invoked (closes, per key of m) and reported success
Disposing(d, m, closes) ==
    [d EXCEPT !.dispose_called =
        [e \in 1 .. Len(d.engines) |->
            \/ d.dispose_called[e]
            \/ \E k \in Keys :
                  /\ get_item(m, k) # NoItem
                  /\ get_item(m, k).value = e
                  /\ \E i \in 1 .. Len(closes[k]) : closes[k][i]]]

\* get_or_create, line 62: the URL is rendered; the lookup comes next
GetOrCreate_call(t, url) ==
    /\ calls[t].pc = "idle"
    /\ calls' = [calls EXCEPT ![t] =
                    [NoCall EXCEPT !.pc = "get", !.op = "get_or_create", !.url = make_url(url),
                                   !.before = items[db.engine_registry]]]
    /\ UNCHANGED <<now, conf, items, sweeper, disposed, last, db>>

\* a lookup that finds nothing
GetOrCreate_get_miss(t) ==
    /\ calls[t].pc = "get"
    /\ calls' = [calls EXCEPT ![t] = [@ EXCEPT !.pc = "register"]]
    /\ UNCHANGED <<now, conf, items, sweeper, disposed, last, db>>

\* get_or_create, lines 63-64 with get, lines 69-72: __ENGINE_REGISTRY.get(url);
\* an engine found is returned, otherwise register(url) is entered
GetOrCreate_get(t) ==
    /\ calls[t].pc = "get"
    /\ LET r == db.engine_registry
           k == calls[t].url
           g == GetResult(conf[r], items[r], k, EngineOutcome(db, items[r], k), now)
           closes == [NoCloses EXCEPT ![k] = g.closes]
       IN /\ items' = [items EXCEPT ![r] = g.map]
          /\ last' = Log("get", r, k, Nil, g.ret, closes,
                         [NoCloses EXCEPT ![k] = g.trace],
                         [NoCloses EXCEPT ![k] = g.result])
          /\ db' = Disposing(db, items[r], closes)
          /\ calls' = [calls EXCEPT ![t] =
                          IF g.ret # Nil
                          THEN [@ EXCEPT !.pc = "done", !.ret = g.ret]
                          ELSE [@ EXCEPT !.pc = "register"]]
    /\ UNCHANGED <<now, conf, sweeper, disposed>>

\* register(bind) called by a client with a URL string
Register_call(t, url) ==
    /\ calls[t].pc = "idle"
    /\ calls' = [calls EXCEPT ![t] =
                    [NoCall EXCEPT !.pc = "register", !.op = "register", !.url = url,
                                   !.before = items[db.engine_registry]]]
    /\ UNCHANGED <<now, conf, items, sweeper, disposed, last, db>>

\* register(bind) called by a client with an engine, lines 38-39: no engine is
\* built
Register_bind(t, e) ==
    /\ calls[t].pc = "idle"
    /\ e \in 1 .. Len(db.engines)
    /\ calls' = [calls EXCEPT ![t] =
                    [NoCall EXCEPT !.pc = "set", !.op = "register", !.url = db.engines[e],
                                   !.engine = e, !.before = items[db.engine_registry]]]
    /\ UNCHANGED <<now, conf, items, sweeper, disposed, last, db>>

\* an engine with the given url comes into being; pool is what its pool's
\* checkedout() reports (Nil: the pool has no such method)
NewEngine(d, url, pool, maker) ==
    [d EXCEPT !.engines = Append(@, url),
              !.checkedout = Append(@, pool),
              !.dispose_called = Append(@, FALSE),
              !.maker = Append(@, maker)]

\* register, lines 32-41: utils.create_engine(bind) builds a new engine, and
\* the key is the rendering of its url
Register_create(t, pool) ==
    /\ calls[t].pc = "register"
    /\ Len(db.engines) < MaxEngines
    /\ db' = NewEngine(db, calls[t].url, pool, calls[t].op)
    /\ calls' = [calls EXCEPT ![t] = [@ EXCEPT !.pc = "set", !.engine = Len(db.engines) + 1]]
    /\ UNCHANGED <<now, conf, items, sweeper, disposed, last>>

\* register, line 36: utils.create_engine(bind) raises; the exception leaves
\* register and, in get_or_create, line 66
Register_raise(t) ==
    /\ calls[t].pc = "register"
    /\ calls' = [calls EXCEPT ![t] = [@ EXCEPT !.pc = "raised"]]
    /\ UNCHANGED <<now, conf, items, sweeper, disposed, last, db>>

\* register, lines 44-57: __ENGINE_REGISTRY.set(key, engine, ttl=__REGISTRY_ITEM_TTL,
\* close_callback=...) and the engine is returned
Register_set(t) ==
    /\ calls[t].pc = "set"
    /\ LET r == db.engine_registry
           key == make_url(db.engines[calls[t].engine])
       IN /\ items' = [items EXCEPT ![r] =
                          PutItem(@, key, RegistryItem(calls[t].engine, db.item_ttl, 1, now))]
          /\ last' = Log("set", r, key, calls[t].engine, Nil, NoCloses, NoCloses, NoCloses)
    /\ calls' = [calls EXCEPT ![t] = [@ EXCEPT !.pc = "done", !.ret = calls[t].engine]]
    /\ UNCHANGED <<now, conf, sweeper, disposed, db>>

\* the call is over (an engine returned, or the exception raised); the thread
\* may call again
GetOrCreate_return(t) ==
    /\ calls[t].pc \in {"done", "raised"}
    /\ calls' = [calls EXCEPT ![t] = NoCall]
    /\ UNCHANGED <<now, conf, items, sweeper, disposed, last, db>>

\* db_registry as imported, and threads calling get_or_create
InitAdapter == InitWith(DefaultDbRegistry)

NextAdapter ==
    \/ \E t \in Threads, url \in Urls : GetOrCreate_call(t, url)
    \/ \E t \in Threads : GetOrCreate_get(t)
    \/ \E t \in Threads : Register_create(t, 0)
    \/ \E t \in Threads : Register_set(t)
    \/ \E t \in Threads : GetOrCreate_return(t)

SpecAdapter == InitAdapter /\ [][NextAdapter]_vars

\* ------------------------------------- db_registry used by one thread
\* a client takes a connection out of the pool of engine e, or returns one
Checkout(e) ==
    /\ e \in 1 .. Len(db.engines)
    /\ db.checkedout[e] # Nil
    /\ db.checkedout[e] < MaxCheckedout
    /\ db' = [db EXCEPT !.checkedout[e] = @ + 1]
    /\ UNCHANGED <<now, conf, items, sweeper, disposed, last, calls>>

Checkin(e) ==
    /\ e \in 1 .. Len(db.engines)
    /\ db.checkedout[e] # Nil
    /\ db.checkedout[e] > 0
    /\ db' = [db EXCEPT !.checkedout[e] = @ - 1]
    /\ UNCHANGED <<now, conf, items, sweeper, disposed, last, calls>>

\* thread t, between its calls of db_registry, builds an engine itself to pass
\* it to register
ClientEngine(t, url) ==
    /\ calls[t].pc = "idle"
    /\ Len(db.engines) < MaxEngines
    /\ db' = NewEngine(db, url, 0, "client")
    /\ UNCHANGED <<now, conf, items, sweeper, disposed, last, calls>>

\* One cycle of the cleanup thread of registry r, a Registry that
\* recreate_db_registry has constructed: Registry._cleanup with the close
\* callbacks register installs
EngineCleanupOf(r) ==
    /\ sweeper[r] = "running"
    /\ \E cl \in {CleanupResult(conf[r], items[r], EngineOutcomes(db, items[r]), now)} :
       /\ items' = [items EXCEPT ![r] = cl.map]
       /\ last' = Log("cleanup", r, "a", Nil, Nil, cl.closes, cl.trace, cl.result)
       /\ db' = Disposing(db, items[r], cl.closes)
    /\ UNCHANGED <<now, conf, sweeper, disposed, calls>>

\* One cycle of the cleanup thread of the engine registry
EngineCleanup == EngineCleanupOf(db.engine_registry)

\* The settings recreate_db_registry is called with
RecreateArgs ==
    {[cleanup_interval |-> c, refresh_on_get |-> FALSE, strategy_enum |-> s, item_ttl |-> ttl] :
        c \in BOOLEAN, s \in {"default", "dispose_engine"}, ttl \in Ttls}

\* recreate_db_registry, lines 85-91: the Registry it constructs
RecreatedRegistry(args) ==
    NewRegistry(args.cleanup_interval, args.refresh_on_get,
                remove_item_strategy_factory(args.strategy_enum))

\* db_registry after recreate_db_registry(args) has been called on the import
\* state: the engine registry is a new, empty Registry
InitRecreated(args) ==
    /\ now = 1
    /\ conf = [r \in Regs |-> RecreatedRegistry(args)]
    /\ items = [r \in Regs |-> <<>>]
    /\ sweeper = [r \in Regs |-> IF r = 1 THEN StartSweeper(RecreatedRegistry(args)) ELSE "none"]
    /\ disposed = [r \in Regs |-> FALSE]
    /\ last = Log("init", 1, "a", Nil, Nil, NoCloses, NoCloses, NoCloses)
    /\ db = [DbAtImport EXCEPT !.item_ttl = args.item_ttl]
    /\ calls = [t \in Threads |-> NoCall]

\* what checkedout() of the pool of a new engine reports: the pool class goes
\* with the URL, and the pools of "b" have no checkedout()
PoolOf(url) == IF make_url(url) = "b" THEN Nil ELSE 0

\* without cleanup thread: an expired engine is met on the lookup
InitEngines == \E args \in {x \in RecreateArgs : ~x.cleanup_interval} : InitRecreated(args)

\* Thread 1 calls register and get_or_create one after the other, with URLs
\* and with engines it has built; and time passes
NextEngines ==
    \/ Tick
    \/ \E url \in {"A", "b"} : GetOrCreate_call(1, url)
    \/ GetOrCreate_get(1)
    \/ Register_call(1, "A")
    \/ \E e \in 1 .. MaxEngines : Register_bind(1, e)
    \/ Register_create(1, PoolOf(calls[1].url))
    \/ Register_raise(1)
    \/ Register_set(1)
    \/ GetOrCreate_return(1)
    \/ ClientEngine(1, "a")

SpecEngines == InitEngines /\ [][NextEngines]_vars

\* ------------------------------- db_registry with expiring engines in use
\* The engine registry sweeps and its items have a ttl
InitDispose ==
    \E args \in {x \in RecreateArgs : x.cleanup_interval /\ x.item_ttl # Nil} :
        InitRecreated(args)

\* Thread 1 calls get_or_create and register; connections are checked out
\* and in; time passes and the cleanup thread sweeps
NextDispose ==
    \/ Tick
    \/ \E url \in {"a", "b"} : GetOrCreate_call(1, url)
    \/ GetOrCreate_get(1)
    \/ Register_call(1, "a")
    \/ Register_create(1, PoolOf(calls[1].url))
    \/ Register_set(1)
    \/ GetOrCreate_return(1)
    \/ \E e \in 1 .. MaxEngines : Checkout(e)
    \/ \E e \in 1 .. MaxEngines : Checkin(e)
    \/ EngineCleanup

SpecDispose == InitDispose /\ [][NextDispose]_vars

\* ---------------------------------------------------- recreate_db_registry
\* recreate_db_registry, lines 83-91: the active registry is noted and a new
\* Registry is constructed (its cleanup thread starts if an interval is given)
Recreate_new(args) ==
    /\ db.recreate.pc = "idle"
    /\ db.engine_registry + 1 \in Regs
    /\ LET new_registry == db.engine_registry + 1 IN
       /\ conf' = [conf EXCEPT ![new_registry] = RecreatedRegistry(args)]
       /\ items' = [items EXCEPT ![new_registry] = <<>>]
       /\ sweeper' = [sweeper EXCEPT ![new_registry] = StartSweeper(RecreatedRegistry(args))]
       /\ db' = [db EXCEPT !.recreate =
                    [pc |-> "copy", previous_registry |-> db.engine_registry,
                     new_registry |-> new_registry, item_ttl |-> args.item_ttl]]
    /\ UNCHANGED <<now, disposed, last, calls>>

\* recreate_db_registry, lines 92-93: `if previous_registry:` is the truth
\* value of a Registry, its __len__; a non-empty one is copied
Recreate_copy ==
    /\ db.recreate.pc = "copy"
    /\ LET previous_registry == db.recreate.previous_registry
           new_registry == db.recreate.new_registry
       IN IF Len(items[previous_registry]) > 0
          THEN /\ items' = [items EXCEPT ![new_registry] =
                               CopyFrom(items[previous_registry], 1, @, now)]
               /\ last' = Log("copy_to", previous_registry, "a", new_registry, Nil,
                              NoCloses, NoCloses, NoCloses)
          ELSE UNCHANGED <<items, last>>
    /\ db' = [db EXCEPT !.recreate.pc = "swap"]
    /\ UNCHANGED <<now, conf, sweeper, disposed, calls>>

\* recreate_db_registry, line 95: __ENGINE_REGISTRY = new_registry
Recreate_swap ==
    /\ db.recreate.pc = "swap"
    /\ db' = [db EXCEPT !.engine_registry = db.recreate.new_registry, !.recreate.pc = "ttl"]
    /\ UNCHANGED <<now, conf, items, sweeper, disposed, last, calls>>

\* recreate_db_registry, line 96: __REGISTRY_ITEM_TTL = registry_item_ttl_in_sec
Recreate_ttl ==
    /\ db.recreate.pc = "ttl"
    /\ db' = [db EXCEPT !.item_ttl = db.recreate.item_ttl, !.recreate.pc = "done"]
    /\ UNCHANGED <<now, conf, items, sweeper, disposed, last, calls>>

\* db_registry as imported; thread 1 calls get_or_create and register while
\* recreate_db_registry is called once, with or without an item ttl
NextRecreate ==
    \/ \E url \in {"A", "b"} : GetOrCreate_call(1, url)
    \/ GetOrCreate_get(1)
    \/ Register_call(1, "a")
    \/ Register_create(1, 0)
    \/ Register_set(1)
    \/ GetOrCreate_return(1)
    \/ \E args \in {x \in RecreateArgs : ~x.cleanup_interval /\ x.strategy_enum = "default"} :
          Recreate_new(args)
    \/ Recreate_copy
    \/ Recreate_swap
    \/ Recreate_ttl

SpecRecreate == InitAdapter /\ [][NextRecreate]_vars

\* ------------------------- recreate_db_registry of a sweeping registry
\* The engine registry sweeps and its items have a ttl of 1
InitSuperseded ==
    InitRecreated([cleanup_interval |-> TRUE, refresh_on_get |-> FALSE,
                   strategy_enum |-> "default", item_ttl |-> 1])

\* Thread 1 calls get_or_create; recreate_db_registry is called once more,
\* with a cleanup interval again; time passes, and the cleanup thread of each
\* Registry constructed so far sweeps it
NextSuperseded ==
    \/ Tick
    \/ GetOrCreate_call(1, "a")
    \/ GetOrCreate_get(1)
    \/ Register_create(1, 0)
    \/ Register_set(1)
    \/ GetOrCreate_return(1)
    \/ \E args \in {x \in RecreateArgs : x.cleanup_interval /\ x.strategy_enum = "default"} :
          Recreate_new(args)
    \/ Recreate_copy
    \/ Recreate_swap
    \/ Recreate_ttl
    \/ \E r \in Regs : EngineCleanupOf(r)

SpecSuperseded == InitSuperseded /\ [][NextSuperseded]_vars

\* --------------------------------- the cleanup thread, scheduled fairly
\* The engine registry sweeps, with the default strategy and an item ttl of 1
InitRetry ==
    InitRecreated([cleanup_interval |-> TRUE, refresh_on_get |-> FALSE,
                   strategy_enum |-> "default", item_ttl |-> 1])

\* Thread 1 calls get_or_create for one URL; connections of the first engine
\* are checked out and in; time passes and the cleanup thread sweeps
NextRetry ==
    \/ Tick
    \/ GetOrCreate_call(1, "a")
    \/ GetOrCreate_get(1)
    \/ Register_create(1, 0)
    \/ Register_set(1)
    \/ GetOrCreate_return(1)
    \/ Checkout(1)
    \/ Checkin(1)
    \/ EngineCleanup

\* Registry._cleanup_task: the thread sleeps for the interval and sweeps, for
\* ever; it is a thread of its own, and the lock it waits for is released at
\* the end of every call of a client, so its next cycle always comes
SpecRetry == InitRetry /\ [][NextRetry]_vars /\ WF_vars(EngineCleanup)

\* ------------------------------------------------- the lock of a Registry
\* In this part a call of a Registry method is several steps of its thread:
\* the call, the acquisition of self._lock, the execution of the close
\* callbacks a removal invokes, and the rest of the body with the release of
\* the lock. calls[t] is the call of thread t in progress: the method and its
\* arguments, and holds, the registries whose lock t owns.
NoLockCall ==
    [pc |-> "idle", op |-> "", reg |-> Nil, key |-> "a", other |-> Nil, i |-> 0, holds |-> {}]

\* the owners of the RLock of registry r
LockOwners(r) == {t \in Threads : r \in calls[t].holds}

\* a lock that lets every thread in
CanAcquire_unlocked(t, r) == TRUE

\* threading.RLock.acquire returns for thread t: no other thread owns the lock
CanAcquire(t, r) == LockOwners(r) \subseteq {t}

\* Whether the body of the call, run now on dict m, invokes a close callback:
\* remove does for an item with callback, get for an expired one, _cleanup
\* for the expired ones
InvokesCallback(call, m, t) ==
    LET item == get_item(m, call.key) IN
    CASE call.op = "remove" -> item # NoItem /\ item.close_callback # Nil
      [] call.op = "get" -> item # NoItem /\ item.close_callback # Nil /\ is_expired(item, t)
      [] call.op = "cleanup" ->
            \E j \in 1 .. Len(m) : m[j].item.close_callback # Nil /\ is_expired(m[j].item, t)
      [] OTHER -> FALSE

\* thread t calls set, get, remove or len of registry r, or is the cleanup
\* thread of r at the end of its sleep: `with self._lock` comes next
MethodCall(t, op, r, k) ==
    /\ calls[t].pc = "idle"
    /\ op = "cleanup" => sweeper[r] = "running"
    /\ calls' = [calls EXCEPT ![t] =
                    [NoLockCall EXCEPT !.pc = "waiting", !.op = op, !.reg = r, !.key = k]]
    /\ UNCHANGED <<now, conf, items, sweeper, disposed, last, db>>

\* thread t calls src.copy_to(dst)
CopyToCall(t, src, dst) ==
    /\ calls[t].pc = "idle"
    /\ src # dst
    /\ calls' = [calls EXCEPT ![t] =
                    [NoLockCall EXCEPT !.pc = "waiting", !.op = "copy_to", !.reg = src,
                                       !.other = dst, !.i = 1]]
    /\ UNCHANGED <<now, conf, items, sweeper, disposed, last, db>>

\* `with self._lock:` at the head of the method is entered
LockEnter(t) ==
    /\ calls[t].pc = "waiting"
    /\ CanAcquire(t, calls[t].reg)
    /\ calls' = [calls EXCEPT ![t] =
                    [@ EXCEPT !.pc = IF calls[t].op = "copy_to" THEN "copying" ELSE "in",
                              !.holds = {calls[t].reg}]]
    /\ UNCHANGED <<now, conf, items, sweeper, disposed, last, db>>

\* inside the lock, the removal strategy has called item.close() and the
\* close callback is executing
CallbackBegin(t) ==
    /\ calls[t].pc = "in"
    /\ InvokesCallback(calls[t], items[calls[t].reg], now)
    /\ calls' = [calls EXCEPT ![t] = [@ EXCEPT !.pc = "callback"]]
    /\ UNCHANGED <<now, conf, items, sweeper, disposed, last, db>>

\* the body of the method is at its end: the callbacks it invokes, if any,
\* have returned
AtReturn(t, op) ==
    /\ calls[t].op = op
    /\ calls[t].pc = IF InvokesCallback(calls[t], items[calls[t].reg], now)
                     THEN "callback" ELSE "in"

\* Registry.set, the body and the release of the lock
SetReturn(t, value, ttl, cb) ==
    /\ AtReturn(t, "set")
    /\ LET r == calls[t].reg
           k == calls[t].key
       IN /\ items' = [items EXCEPT ![r] = PutItem(@, k, RegistryItem(value, ttl, cb, now))]
          /\ last' = Log("set", r, k, value, Nil, NoCloses, NoCloses, NoCloses)
    /\ calls' = [calls EXCEPT ![t] = NoLockCall]
    /\ UNCHANGED <<now, conf, sweeper, disposed, db>>

\* Registry.get, the body and the release of the lock
GetReturn(t, oc) ==
    /\ AtReturn(t, "get")
    /\ LET r == calls[t].reg
           k == calls[t].key
           g == GetResult(conf[r], items[r], k, oc, now)
       IN /\ items' = [items EXCEPT ![r] = g.map]
          /\ last' = Log("get", r, k, Nil, g.ret, [NoCloses EXCEPT ![k] = g.closes],
                         [NoCloses EXCEPT ![k] = g.trace], [NoCloses EXCEPT ![k] = g.result])
    /\ calls' = [calls EXCEPT ![t] = NoLockCall]
    /\ UNCHANGED <<now, conf, sweeper, disposed, db>>

\* Registry.remove, the body and the release of the lock
RemoveReturn(t, oc) ==
    /\ AtReturn(t, "remove")
    /\ LET r == calls[t].reg
           k == calls[t].key
           rm == StrategyRemove(conf[r].strategy, items[r], k, oc)
       IN /\ items' = [items EXCEPT ![r] = rm.map]
          /\ last' = Log("remove", r, k, Nil, Nil, [NoCloses EXCEPT ![k] = rm.closes],
                         [NoCloses EXCEPT ![k] = rm.trace],
                         [NoCloses EXCEPT ![k] = <<rm.result>>])
    /\ calls' = [calls EXCEPT ![t] = NoLockCall]
    /\ UNCHANGED <<now, conf, sweeper, disposed, db>>

\* Registry.__len__, the body and the release of the lock
LenReturn(t) ==
    /\ AtReturn(t, "len")
    /\ last' = Log("len", calls[t].reg, "a", Nil, Len(items[calls[t].reg]),
                   NoCloses, NoCloses, NoCloses)
    /\ calls' = [calls EXCEPT ![t] = NoLockCall]
    /\ UNCHANGED <<now, conf, items, sweeper, disposed, db>>

\* Registry._cleanup, the body and the release of the lock
CleanupReturn(t, ocs) ==
    /\ AtReturn(t, "cleanup")
    /\ LET r == calls[t].reg
           cl == CleanupResult(conf[r], items[r], ocs, now)
       IN /\ items' = [items EXCEPT ![r] = cl.map]
          /\ last' = Log("cleanup", r, "a", Nil, Nil, cl.closes, cl.trace, cl.result)
    /\ calls' = [calls EXCEPT ![t] = NoLockCall]
    /\ UNCHANGED <<now, conf, sweeper, disposed, db>>

\* Registry.copy_to, one turn of the loop: other.set(...) of the next entry,
\* which takes and releases the lock of the other registry, while the lock of
\* the source is held
CopyToSet(t) ==
    LET src == calls[t].reg
        dst == calls[t].other
        i == calls[t].i
    IN /\ calls[t].pc = "copying"
       /\ i <= Len(items[src])
       /\ CanAcquire(t, dst)
       /\ items' = [items EXCEPT ![dst] =
                        PutItem(@, items[src][i].key, CopiedItem(items[src][i].item, now))]
       /\ last' = Log("set", dst, items[src][i].key, items[src][i].item.value, Nil,
                      NoCloses, NoCloses, NoCloses)
       /\ calls' = [calls EXCEPT ![t] = [@ EXCEPT !.i = i + 1]]
       /\ UNCHANGED <<now, conf, sweeper, disposed, db>>

\* Registry.copy_to, the end of the loop and the release of the lock
CopyToReturn(t) ==
    /\ calls[t].pc = "copying"
    /\ calls[t].i > Len(items[calls[t].reg])
    /\ last' = Log("copy_to", calls[t].reg, "a", calls[t].other, Nil,
                   NoCloses, NoCloses, NoCloses)
    /\ calls' = [calls EXCEPT ![t] = NoLockCall]
    /\ UNCHANGED <<now, conf, items, sweeper, disposed, db>>

\* Two registries with a cleanup interval and the default strategy
InitLocks ==
    /\ now = 1
    /\ conf = [r \in Regs |-> NewRegistry(TRUE, FALSE, DefaultStrategy)]
    /\ items = [r \in Regs |-> <<>>]
    /\ sweeper = [r \in Regs |-> StartSweeper(conf[r])]
    /\ disposed = [r \in Regs |-> FALSE]
    /\ last = Log("init", 1, "a", Nil, Nil, NoCloses, NoCloses, NoCloses)
    /\ db = DbAtImport
    /\ calls = [t \in Threads |-> NoLockCall]

\* Each thread calls a method of registry 1, or is its cleanup thread, sets
\* an item in registry 2 or copies one registry to the other, all through key
\* "a" and items with ttl and callback; time passes
NextLocks ==
    \/ Tick
    \/ \E t \in Threads, op \in {"set", "get", "remove", "len", "cleanup"} :
          MethodCall(t, op, 1, "a")
    \/ \E t \in Threads : MethodCall(t, "set", 2, "a")
    \/ \E t \in Threads, src \in Regs, dst \in Regs : CopyToCall(t, src, dst)
    \/ \E t \in Threads : LockEnter(t)
    \/ \E t \in Threads : CallbackBegin(t)
    \/ \E t \in Threads : SetReturn(t, 1, 1, 1)
    \/ \E t \in Threads :
          /\ calls[t].pc # "idle"
          /\ \E oc \in OutcomesFor(items[calls[t].reg], "a") : GetReturn(t, oc)
    \/ \E t \in Threads :
          /\ calls[t].pc # "idle"
          /\ \E oc \in OutcomesFor(items[calls[t].reg], "a") : RemoveReturn(t, oc)
    \/ \E t \in Threads : LenReturn(t)
    \/ \E t \in Threads :
          /\ calls[t].pc # "idle"
          /\ \E ocs \in OutcomesForAll(items[calls[t].reg]) : CleanupReturn(t, ocs)
    \/ \E t \in Threads : CopyToSet(t)
    \/ \E t \in Threads : CopyToReturn(t)

SpecLocks == InitLocks /\ [][NextLocks]_vars

\* ------------------------------------------------------------ properties
\* What a step is: the method call that `last` names in the next state.
Called(op) == now' = now /\ last'.op = op
CalledOn(op, k) == Called(op) /\ last'.key = k
Before(k) == get_item(items[1], k)
After(k) == get_item(items'[1], k)

\* The item's ttl has elapsed at time t (an item without ttl never expires).
TtlElapsed(item, t) == item.ttl # Nil /\ item.ttl > 0 /\ t > item.expiration_time
\* No invocation of the close callback reported failure (none is made for an
\* item without callback), resp. some invocation reported success.
CloseSucceeded(item, closes) == \A i \in 1 .. Len(closes) : closes[i]
CloseSucceededOnce(item, closes) ==
    item.close_callback = Nil \/ \E i \in 1 .. Len(closes) : closes[i]
\* The callback was invoked and every invocation reported failure.
CloseFailed(item, closes) ==
    item.close_callback # Nil /\ closes # <<>> /\ \A i \in 1 .. Len(closes) : ~closes[i]

\* C1: set(k, v) followed by get(k) returns v.  Step by step: set(k, v) leaves
\* a live item holding v at k whatever was there before; calls on other keys,
\* len, the passing of time and the sweep leave an item at k whose ttl has not
\* elapsed as it is; get(k) on such an item returns its value.
C1_SetThenGet ==
    [][\A k \in Keys :
        /\ CalledOn("set", k) =>
              /\ After(k) # NoItem
              /\ After(k).value = last'.arg
              /\ ~TtlElapsed(After(k), now)
        /\ (\E op \in {"set", "get", "remove"} : Called(op) /\ last'.key # k) =>
              After(k) = Before(k)
        /\ ((Called("cleanup") \/ Called("len") \/ now' # now)
                /\ Before(k) # NoItem /\ ~TtlElapsed(Before(k), now)) =>
              After(k) = Before(k)
        /\ (CalledOn("get", k) /\ Before(k) # NoItem /\ ~TtlElapsed(Before(k), now)) =>
              last'.ret = Before(k).value
      ]_vars

\* a get has returned the value stored at "a" while "b" holds another entry
C1_Witness ==
    /\ last.op = "get" /\ last.key = "a" /\ last.ret = 2
    /\ HasKey(items[1], "b") /\ get_item(items[1], "b").value = 1

\* C2: under the default strategy a removal (remove, lazy get, sweep) deletes
\* an entry only if its close callback reported success in that removal (an
\* item without callback closes trivially); if the callback reports failure the
\* entry stays, get(k) still returns its value even past expiry, and len()
\* counts every entry of the map.
C2_RemovedOnlyIfClosed ==
    [][/\ \A k \in Keys :
            (now' = now /\ last'.op \in {"remove", "get", "cleanup"} /\ Before(k) # NoItem) =>
               /\ After(k) = NoItem => CloseSucceededOnce(Before(k), last'.closes[k])
               /\ CloseFailed(Before(k), last'.closes[k]) =>
                     /\ After(k) # NoItem
                     /\ After(k).value = Before(k).value
                     /\ CalledOn("get", k) => last'.ret = Before(k).value
       /\ Called("len") => last'.ret = Cardinality({k \in Keys : Before(k) # NoItem})
      ]_vars

\* a get past the expiry whose close failed has returned the value; the entry
\* is still there, expired
C2_Witness ==
    /\ last.op = "get" /\ last.key = "a" /\ last.closes["a"] = <<FALSE, FALSE>>
    /\ last.ret \in Values
    /\ HasKey(items[1], "a") /\ TtlElapsed(get_item(items[1], "a"), now)

\* C3: with a sweep interval and the default strategy, a sweep cycle that runs
\* after an item's ttl has elapsed leaves the entry gone (get(k) returns none,
\* len() does not count it), provided its close callback reports success.
C3_SweepRemovesExpired ==
    [][\A k \in Keys :
        (Called("cleanup") /\ conf[1].cleanup_interval
            /\ Before(k) # NoItem /\ TtlElapsed(Before(k), now)
            /\ CloseSucceeded(Before(k), last'.closes[k])) =>
          /\ After(k) = NoItem
          /\ k \notin KeysOf(items'[1])
          /\ GetResult(conf[1], items'[1], k, <<TRUE, TRUE>>, now).ret = Nil
      ]_vars

\* a sweep has closed and removed both keys
C3_Witness ==
    /\ last.op = "cleanup"
    /\ last.closes["a"] = <<TRUE, TRUE>> /\ last.trace["a"] = <<TRUE, TRUE>>
    /\ last.trace["b"] = <<TRUE, TRUE>>
    /\ items[1] = <<>>

\* C4: without a sweep interval, get(k) on an item whose ttl has not elapsed
\* returns its value and removes nothing; the first get(k) after the ttl has
\* elapsed runs the removal strategy and, the close succeeding, returns none
\* and leaves the key absent.
C4_LazyExpiry ==
    [][\A k \in Keys :
        (CalledOn("get", k) /\ ~conf[1].cleanup_interval /\ Before(k) # NoItem) =>
          /\ ~TtlElapsed(Before(k), now) =>
                /\ last'.ret = Before(k).value
                /\ After(k) # NoItem
                /\ last'.trace[k] = <<>>
          /\ (TtlElapsed(Before(k), now) /\ CloseSucceeded(Before(k), last'.closes[k])) =>
                /\ last'.trace[k] # <<>>
                /\ last'.ret = Nil
                /\ After(k) = NoItem
      ]_vars

\* without a sweep interval, a get has closed and removed the expired "a"
C4_Witness ==
    /\ ~conf[1].cleanup_interval
    /\ last.op = "get" /\ last.key = "a" /\ last.ret = Nil
    /\ last.closes["a"] = <<TRUE, TRUE>> /\ last.trace["a"] = <<TRUE, TRUE>>
    /\ ~HasKey(items[1], "a")

\* C5: with refresh_on_get, a get(k) on an item whose ttl has not elapsed sets
\* its expiration to now + ttl, and neither get nor the sweep removes an item
\* whose ttl has not elapsed (so gets spaced at most ttl apart keep it);
\* without refresh_on_get, get never changes an item's expiration_time.
C5_RefreshOnGet ==
    [][\A k \in Keys :
        /\ (CalledOn("get", k) /\ conf[1].refresh_on_get
                /\ Before(k) # NoItem /\ ~TtlElapsed(Before(k), now)) =>
              /\ After(k) # NoItem
              /\ After(k).expiration_time =
                    (IF Before(k).ttl = Nil THEN Nil ELSE now + Before(k).ttl)
              /\ After(k).value = Before(k).value /\ After(k).ttl = Before(k).ttl
        /\ ((Called("get") \/ Called("cleanup"))
                /\ Before(k) # NoItem /\ ~TtlElapsed(Before(k), now)) =>
              After(k) # NoItem
        /\ (Called("get") /\ ~conf[1].refresh_on_get
                /\ Before(k) # NoItem /\ After(k) # NoItem) =>
              After(k).expiration_time = Before(k).expiration_time
      ]_vars

\* with refresh_on_get, a get at the last instant has returned "a" (ttl 1)
\* and left its deadline at now + ttl
C5_Witness ==
    /\ conf[1].refresh_on_get /\ now = MaxTime
    /\ last.op = "get" /\ last.key = "a" /\ last.ret \in Values
    /\ HasKey(items[1], "a")
    /\ get_item(items[1], "a").ttl = 1
    /\ get_item(items[1], "a").expiration_time = now + 1

\* C6: after a Registry with an active sweep task is disposed of, its sweep
\* thread is no longer alive.
C6_DisposeStopsSweeper ==
    \A r \in Regs : disposed[r] => sweeper[r] # "running"

\* C10: in a composite strategy with break_on_failure, once a stage reports
\* failure no later stage is executed and the composite reports failure.
C10_BreakOnFailure ==
    \A k \in Keys :
        LET s == conf[last.reg].strategy
            tr == last.trace[k]
        IN (s.kind = "composite" /\ s.break_on_failure) =>
              \A i \in 1 .. Len(tr) :
                  ~tr[i] => (Len(tr) = i /\ last.result[k] = <<FALSE>>)

\* the second of three stages has failed and the third has not run
C10_Witness ==
    /\ conf[1].strategy.kind = "composite" /\ conf[1].strategy.break_on_failure
    /\ Len(conf[1].strategy.strategies) = 3
    /\ last.op = "remove" /\ last.trace["a"] = <<TRUE, FALSE>>
    /\ last.result["a"] = <<FALSE>>

\* C18: a composite strategy without break_on_failure executes every stage,
\* and reports success if and only if every stage reported success.
C18_AllStagesSucceed ==
    \A k \in Keys :
        LET s == conf[last.reg].strategy
            tr == last.trace[k]
        IN (s.kind = "composite" /\ ~s.break_on_failure /\ last.result[k] # <<>>) =>
              /\ Len(tr) = Len(s.strategies)
              /\ last.result[k] = <<\A i \in 1 .. Len(tr) : tr[i]>>

\* C19: the sweep loop survives every removal outcome: whether a removal
\* reports failure or its close callback raises, the removal of every key
\* that was expired at the start of the cycle is attempted, and the cleanup
\* thread keeps running.
C19_SweepSurvives ==
    [][(Called("cleanup") \/ Called("cleanup_raised")) =>
          /\ \A k \in Keys :
                (Before(k) # NoItem /\ TtlElapsed(Before(k), now)) =>
                   \/ last'.trace[k] # <<>>
                   \/ last'.op = "cleanup_raised" /\ last'.key = k
          /\ sweeper'[1] = "running"
      ]_vars

\* C20: remove(k) and get(k) on a key that is absent leave the registry as it
\* is under every strategy (same keys, same items), invoke no close callback,
\* and get returns none.
C20_AbsentKeyNoOp ==
    [][\A k \in Keys :
        ((CalledOn("remove", k) \/ CalledOn("get", k)) /\ Before(k) = NoItem) =>
           /\ items' = items
           /\ \A j \in Keys : last'.closes[j] = <<>>
           /\ CalledOn("get", k) => last'.ret = Nil
      ]_vars

\* remove("a") has run both stages of a composite without break_on_failure on
\* the absent "a"; the entry of "b" is untouched
C20_Witness ==
    /\ conf[1].strategy.kind = "composite" /\ ~conf[1].strategy.break_on_failure
    /\ last.op = "remove" /\ last.key = "a" /\ last.trace["a"] = <<FALSE, FALSE>>
    /\ KeysOf(items[1]) = {"b"}
    /\ get_item(items[1], "b").close_callback # Nil

\* C8: after source.copy_to(dest) every key that was in the source before the
\* call is in dest with the same value, the same ttl and the same close
\* callback.
C8_CopyToCopiesAll ==
    [][Called("copy_to") =>
          \A k \in Keys :
              LET s == get_item(items[last'.reg], k)
                  d == get_item(items'[last'.arg], k)
              IN s # NoItem =>
                    /\ d # NoItem
                    /\ d.value = s.value
                    /\ d.ttl = s.ttl
                    /\ d.close_callback = s.close_callback
      ]_vars

\* a copy at the last instant has put both keys into the destination, "a"
\* with a ttl and a callback in place of the entry that was there
C8_Witness ==
    /\ last.op = "copy_to" /\ now = MaxTime
    /\ KeysOf(items[1]) = Keys /\ KeysOf(items[2]) = Keys
    /\ get_item(items[2], "a") =
          [value |-> 1, ttl |-> 1, expiration_time |-> now + 1, close_callback |-> 1]

\* C9: copy_to leaves the source as it was (its keys, and each item's value,
\* ttl, expiration_time and close callback) and invokes no close callback.
C9_CopyToKeepsSource ==
    [][Called("copy_to") =>
          /\ items'[last'.reg] = items[last'.reg]
          /\ \A k \in Keys : last'.closes[k] = <<>>
      ]_vars

\* a copy has been made of a source that holds an expired entry with callback
C9_Witness ==
    /\ last.op = "copy_to"
    /\ HasKey(items[1], "a") /\ HasKey(items[2], "a")
    /\ get_item(items[1], "a").close_callback # Nil
    /\ TtlElapsed(get_item(items[1], "a"), now)
    /\ ~TtlElapsed(get_item(items[2], "a"), now)

\* C27: source.copy_to(dest) stores every entry of the source, an expired one
\* that is still in the map included, in dest with its ttl and with the
\* expiration (time of the copy + ttl), none for an entry without ttl: never
\* with the deadline the entry has in the source.
C27_CopyToFreshExpiry ==
    [][Called("copy_to") =>
          \A k \in Keys :
              LET s == get_item(items[last'.reg], k)
                  d == get_item(items'[last'.arg], k)
              IN s # NoItem =>
                    /\ d # NoItem
                    /\ d.ttl = s.ttl
                    /\ d.expiration_time = IF s.ttl = Nil THEN Nil ELSE now + s.ttl
      ]_vars

\* a copy made at time 3 of a source whose "b" ran out at time 2 and whose "a"
\* has no ttl: "b" is in the destination with the deadline 3 + 1
C27_Witness ==
    /\ last.op = "copy_to" /\ now = 3
    /\ get_item(items[1], "b") # NoItem
    /\ get_item(items[1], "b").ttl = 1
    /\ get_item(items[1], "b").expiration_time = 2
    /\ get_item(items[2], "b") # NoItem
    /\ get_item(items[2], "b").expiration_time = 4
    /\ get_item(items[1], "a") # NoItem
    /\ get_item(items[1], "a").ttl = Nil
    /\ get_item(items[2], "a").expiration_time = Nil

\* C28: every RegistryItem in a registry, whatever ttl it was built with (0
\* included) and however often get has refreshed it, has no expiration_time
\* if and only if it has no ttl.
C28_ExpirationIffTtl ==
    \A r \in Regs : \A i \in 1 .. Len(items[r]) :
        (items[r][i].item.expiration_time = Nil) <=> (items[r][i].item.ttl = Nil)

\* C7: when threads call get_or_create for the same URL concurrently with no
\* prior entry, the engine constructor is invoked once for that key and the
\* calls return the identical engine: no two engines exist for one key.
C7_OneEnginePerKey ==
    /\ \A k \in Keys :
          Cardinality({e \in 1 .. Len(db.engines) : make_url(db.engines[e]) = k}) <= 1
    /\ \A t1 \in Threads, t2 \in Threads :
          (calls[t1].pc = "done" /\ calls[t2].pc = "done" /\ calls[t1].url = calls[t2].url) =>
             calls[t1].ret = calls[t2].ret

\* C16: set(k, ...) on a key that holds an entry, expired or not, puts the new
\* item in its place, not expired, without running the removal strategy or
\* invoking a close callback; afterwards the registry invokes at k only the
\* callback of the item that is stored there, never that of a replaced one.
C16_SetReplacesSilently ==
    [][\A k \in Keys :
        /\ (CalledOn("set", k) /\ Before(k) # NoItem) =>
              /\ After(k) # NoItem
              /\ After(k).value = last'.arg
              /\ ~TtlElapsed(After(k), now)
              /\ After(k).expiration_time =
                    (IF After(k).ttl = Nil THEN Nil ELSE now + After(k).ttl)
              /\ \A j \in Keys : last'.closes[j] = <<>> /\ last'.trace[j] = <<>>
              /\ \A j \in Keys \ {k} : get_item(items'[1], j) = get_item(items[1], j)
        /\ (now' = now /\ last'.closes[k] # <<>>) =>
              /\ Before(k) # NoItem
              /\ Before(k).close_callback # Nil
      ]_vars

\* a set has put an item without callback in the place of an expired item
\* with callback, which was not closed
C16_Witness ==
    /\ last.op = "set" /\ last.key = "a" /\ last.arg = 2
    /\ now = MaxTime
    /\ get_item(items[1], "a") =
          [value |-> 2, ttl |-> 1, expiration_time |-> now + 1, close_callback |-> Nil]
    /\ HasKey(items[1], "b")

\* C21: a removal of a present item under the default strategy (remove, lazy
\* get, one sweep cycle) invokes the item's close callback exactly once, and
\* the close stage reports the result of that invocation.
C21_ClosedOnce ==
    [][\A k \in Keys :
        (now' = now /\ last'.op \in {"remove", "get", "cleanup"}
            /\ Before(k) # NoItem /\ Before(k).close_callback # Nil
            /\ last'.trace[k] # <<>>) =>
           /\ Len(last'.closes[k]) = 1
           /\ last'.trace[k][1] = last'.closes[k][1]
      ]_vars

\* C22: a get(k) on an item whose ttl has elapsed and whose removal fails
\* returns the value and leaves the item as it was, expiration_time included,
\* whatever refresh_on_get is.
C22_NoRefreshAfterFailedRemoval ==
    [][\A k \in Keys :
        (CalledOn("get", k) /\ Before(k) # NoItem /\ TtlElapsed(Before(k), now)
            /\ After(k) # NoItem) =>
           /\ last'.ret = Before(k).value
           /\ After(k) = Before(k)
      ]_vars

\* C23: neither get nor the sweep closes or removes an item whose ttl has not
\* elapsed at that moment (an item without ttl never): no callback of it is
\* invoked, no strategy stage runs on it, and it stays with its value, ttl
\* and callback.
C23_OnlyExpiredRemoved ==
    [][\A k \in Keys :
        ((Called("get") \/ Called("cleanup"))
            /\ Before(k) # NoItem /\ ~TtlElapsed(Before(k), now)) =>
           /\ last'.closes[k] = <<>>
           /\ last'.trace[k] = <<>>
           /\ After(k) # NoItem
           /\ After(k).value = Before(k).value
           /\ After(k).ttl = Before(k).ttl
           /\ After(k).close_callback = Before(k).close_callback
      ]_vars

\* a sweep has closed and removed the expired "a" and left alone "b", whose
\* ttl has not elapsed and which has a callback
C23_Witness ==
    /\ last.op = "cleanup" /\ last.trace["a"] = <<TRUE, TRUE>>
    /\ KeysOf(items[1]) = {"b"}
    /\ get_item(items[1], "b").ttl = 1
    /\ get_item(items[1], "b").close_callback = 1
    /\ ~TtlElapsed(get_item(items[1], "b"), now)
    /\ last.closes["b"] = <<>>

\* ------------------------------------------- properties of db_registry
\* The item of the engine registry at k before and after a step, and the
\* progress of thread t's call in the step
EngineBefore(k) == get_item(items[db.engine_registry], k)
EngineAfter(k) == get_item(items'[db'.engine_registry], k)
Moved(t, from, to) == calls[t].pc = from /\ calls'[t].pc = to
\* a step of the cleanup thread of the engine registry: the log names the
\* sweep, and no client has moved (no call, no engine, no connection)
Swept ==
    /\ Called("cleanup")
    /\ calls' = calls /\ db'.engines = db.engines /\ db'.checkedout = db.checkedout
\* the engines utils.create_engine has built for key k inside get_or_create
ConstructedFor(d, k) ==
    {e \in 1 .. Len(d.engines) : d.maker[e] = "get_or_create" /\ make_url(d.engines[e]) = k}

C12_DisposeKeepsEntry ==
    [][\A k \in Keys :
        (conf[db.engine_registry].strategy = CloseItemOnRemoveStrategy
            /\ conf[db.engine_registry].cleanup_interval
            /\ EngineBefore(k) # NoItem) =>
          /\ (Swept /\ TtlElapsed(EngineBefore(k), now)) =>
                /\ last'.closes[k] # <<>>
                /\ db.checkedout[EngineBefore(k).value] = 0 =>
                      db'.dispose_called[EngineBefore(k).value]
                /\ EngineAfter(k) = EngineBefore(k)
          /\ EngineAfter(k) # NoItem
          /\ ~(Moved(1, "set", "done") /\ make_url(db.engines[calls[1].engine]) = k) =>
                EngineAfter(k).value = EngineBefore(k).value
          /\ (calls[1].pc = "get" /\ calls'[1].pc # "get" /\ calls[1].url = k) =>
                /\ calls'[1].pc = "done"
                /\ calls'[1].ret = EngineBefore(k).value
                /\ db'.engines = db.engines
      ]_vars

\* the sweep has disposed of the expired engine of "a", the only engine built,
\* and the entry is still there
C12_Witness ==
    /\ conf[db.engine_registry].strategy = CloseItemOnRemoveStrategy
    /\ last.op = "cleanup" /\ last.closes["a"] = <<TRUE, TRUE>>
    /\ HasKey(items[db.engine_registry], "a")
    /\ TtlElapsed(get_item(items[db.engine_registry], "a"), now)
    /\ get_item(items[db.engine_registry], "a").value = 1
    /\ db.dispose_called[1] /\ db.checkedout[1] = 0
    /\ Len(db.engines) = 1

\* C13: recreate is atomic for concurrent register/get_or_create callers: the
\* registry and the default ttl a register call uses are those of the old
\* configuration (the import-time one) or those of the new one, and the item
\* it stores carries the ttl of the registry it is stored in.
C13_RecreateAtomic ==
    [][\A t \in Threads :
        Moved(t, "set", "done") =>
           \/ /\ db.engine_registry = DbAtImport.engine_registry
              /\ db.item_ttl = DbAtImport.item_ttl
           \/ /\ db.recreate.pc # "idle"
              /\ db.engine_registry = db.recreate.new_registry
              /\ db.item_ttl = db.recreate.item_ttl
      ]_vars

\* C14: once recreate has returned, the key of every completed register or
\* get_or_create call is in the active registry.
C14_NoKeyDropped ==
    db.recreate.pc = "done" =>
        \A t \in Threads :
            calls[t].pc = "done" => HasKey(items[db.engine_registry], make_url(calls[t].url))

\* C15 (as amended): when the constructor raises in register or get_or_create,
\* the exception reaches the caller and no entry has been added, replaced or
\* changed; the only difference from the registry at the start of the call is
\* that the lookup of get_or_create may have removed the entry of its key,
\* whose ttl had elapsed.
C15_RaiseInstallsNothing ==
    \A t \in Threads :
        calls[t].pc = "raised" =>
            LET m == items[db.engine_registry]
                before == calls[t].before
                k == make_url(calls[t].url)
            IN \/ m = before
               \/ /\ calls[t].op = "get_or_create"
                  /\ HasKey(before, k)
                  /\ TtlElapsed(get_item(before, k), now)
                  /\ m = SelectSeq(before, LAMBDA e : e.key # k)

\* the constructor has raised in get_or_create("A"), whose lookup had removed
\* the expired engine of "a"; the engine of "b" is still registered
C15_Witness ==
    /\ calls[1].pc = "raised" /\ calls[1].op = "get_or_create" /\ calls[1].url = "a"
    /\ KeysOf(calls[1].before) = Keys
    /\ KeysOf(items[db.engine_registry]) = {"b"}

\* C15 (as stated): when the constructor raises in register or get_or_create,
\* the registry is exactly as it was before the call.
C15_RaiseLeavesRegistry ==
    \A t \in Threads :
        calls[t].pc = "raised" => items[db.engine_registry] = calls[t].before

\* C17: the close callback register installs disposes of the engine only
\* when its pool reports zero checkouts: in a removal (by the lookup of
\* get_or_create or by the sweep) of an entry whose engine has checkouts, the
\* callback reports failure, dispose() is not called and the entry stays; with
\* zero checkouts dispose() is called and the callback reports success; and
\* dispose() is called in no other way.
C17_DisposeOnlyWhenIdle ==
    [][/\ \A k \in Keys :
            ((Swept \/ (calls[1].pc = "get" /\ calls'[1].pc # "get"))
                /\ EngineBefore(k) # NoItem /\ last'.closes[k] # <<>>) =>
               LET e == EngineBefore(k).value IN
               /\ (db.checkedout[e] # Nil /\ db.checkedout[e] > 0) =>
                     /\ \A i \in 1 .. Len(last'.closes[k]) : ~last'.closes[k][i]
                     /\ db'.dispose_called[e] = db.dispose_called[e]
                     /\ EngineAfter(k) = EngineBefore(k)
               /\ db.checkedout[e] = 0 =>
                     /\ \A i \in 1 .. Len(last'.closes[k]) : last'.closes[k][i]
                     /\ db'.dispose_called[e]
       /\ \A e \in 1 .. Len(db.engines) :
            (db'.dispose_called[e] /\ ~db.dispose_called[e]) =>
               /\ db.checkedout[e] = Nil \/ db.checkedout[e] = 0
               /\ \E k \in Keys :
                     /\ EngineBefore(k) # NoItem /\ EngineBefore(k).value = e
                     /\ \E i \in 1 .. Len(last'.closes[k]) : last'.closes[k][i]
      ]_vars

\* under the default strategy the lookup of get_or_create has met the expired
\* engine of "a" with a connection checked out: the callback failed, the
\* engine is not disposed of, and the call returned it
C17_Witness ==
    /\ conf[db.engine_registry].strategy = DefaultStrategy
    /\ last.op = "get" /\ last.key = "a" /\ last.closes["a"] = <<FALSE, FALSE>>
    /\ calls[1].pc = "done" /\ calls[1].op = "get_or_create"
    /\ HasKey(items[db.engine_registry], "a")
    /\ TtlElapsed(get_item(items[db.engine_registry], "a"), now)
    /\ calls[1].ret = get_item(items[db.engine_registry], "a").value
    /\ db.checkedout[calls[1].ret] = 1
    /\ ~db.dispose_called[calls[1].ret]

\* a step of the cleanup thread of registry r while no call of
\* recreate_db_registry moves
SweptBy(r) ==
    /\ Swept /\ last'.reg = r
    /\ db'.recreate = db.recreate /\ db'.engine_registry = db.engine_registry

\* C24: once recreate_db_registry has made the new registry the engine
\* registry, the cleanup thread of the superseded one is not running any
\* more; the only cleanup thread that invokes close callbacks of engines is
\* the one of the engine registry, so the old registry's sweep closes no
\* engine that was copied over.
C24_OneSweeper ==
    [][/\ \A r \in Regs : r < db'.engine_registry => sweeper'[r] # "running"
       /\ \A r \in Regs :
             (SweptBy(r) /\ r # db.engine_registry) => \A k \in Keys : last'.closes[k] = <<>>
      ]_vars

\* C25: with the default removal strategy, get_or_create never returns from
\* its lookup an engine whose close callback has reported success (dispose()
\* has been called on it), whatever recreate_db_registry and the cleanup
\* threads have done before.
C25_NeverHandsOutClosed ==
    [][\A t \in Threads :
          Moved(t, "get", "done") => ~db'.dispose_called[calls'[t].ret]
      ]_vars

\* the engine registry holds engine e at "a"
Holding(e) ==
    /\ EngineBefore("a") # NoItem
    /\ EngineBefore("a").value = e

InCallback(t, r) == calls[t].pc = "callback" /\ calls[t].reg = r
\* thread u enters the body of a method of r, or returns from one
EntersOrReturns(u, r) ==
    /\ calls[u].reg = r
    /\ calls[u].op \in {"set", "get", "remove", "len", "cleanup"}
    /\ \/ calls[u].pc = "waiting" /\ calls'[u].pc # "waiting"
       \/ calls[u].pc # "idle" /\ calls'[u].pc = "idle"
\* thread u, inside copy_to, sets an entry in r
CopiesInto(u, r) ==
    calls[u].pc = "copying" /\ calls[u].other = r /\ calls'[u].i = calls[u].i + 1

\* C29: a close callback is executed, on each of the three removal paths
\* (remove, get of an expired item, the sweep), by a thread that owns the
\* registry's lock, no other thread owns it, and as long as the callback is
\* executing no other thread enters or completes a set, get, remove, len or
\* sweep of that registry, nor a set made into it by copy_to, and the dict is
\* not changed.
C29_CallbacksUnderLock ==
    [][\A t \in Threads, r \in Regs :
          InCallback(t, r) =>
             /\ calls[t].op \in {"remove", "get", "cleanup"}
             /\ LockOwners(r) = {t}
             /\ \A u \in Threads \ {t} : ~EntersOrReturns(u, r) /\ ~CopiesInto(u, r)
             /\ calls'[t] = calls[t] => items'[r] = items[r]
      ]_vars

\* the cleanup thread is executing the close callback of the expired "a" of
\* registry 1 while the other thread, which has called set on that registry,
\* waits for the lock
C29_Witness ==
    /\ InCallback(1, 1) /\ calls[1].op = "cleanup"
    /\ is_expired(get_item(items[1], "a"), now)
    /\ calls[2].pc = "waiting" /\ calls[2].op = "set" /\ calls[2].reg = 1

\* thread t, inside copy_to with the source's lock, has an entry left to set
\* and the lock of the other registry is owned by another thread
CopyBlocked(t) ==
    /\ calls[t].pc = "copying"
    /\ calls[t].i <= Len(items[calls[t].reg])
    /\ ~CanAcquire(t, calls[t].other)

\* C30: copy_to does not deadlock: two threads that run A.copy_to(B) and
\* B.copy_to(A) at the same time are never each waiting, with the lock of its
\* source, for the lock the other owns.
C30_CopyToNoDeadlock ==
    \A t \in Threads, u \in Threads :
        ~(/\ t # u
          /\ CopyBlocked(t) /\ CopyBlocked(u)
          /\ calls[t].other \in calls[u].holds
          /\ calls[u].other \in calls[t].holds)

\* ------------------------------ properties of RemoveItemStrategy and get_item
\* C31: RemoveItemStrategy.remove, run by remove(k) of a Registry constructed
\* with that strategy alone: when k is present its entry is deleted, success is
\* reported and no close callback is invoked; when k is absent failure is
\* reported and the dict is as before; the other entries stay in either case.
C31_RemoveItemOnlyDeletes ==
    [][\A k \in Keys :
          CalledOn("remove", k) =>
             /\ last'.closes[k] = <<>>
             /\ \A j \in Keys \ {k} : After(j) = Before(j) /\ last'.closes[j] = <<>>
             /\ IF Before(k) # NoItem
                THEN After(k) = NoItem /\ last'.result[k] = <<TRUE>>
                ELSE items'[1] = items[1] /\ last'.result[k] = <<FALSE>>
      ]_vars

\* remove("a") has deleted the entry of "a" with success and without a close;
\* the entry of "b", which has a callback and whose ttl has elapsed, is there
C31_Witness ==
    /\ conf[1].strategy = RemoveItemStrategy
    /\ last.op = "remove" /\ last.key = "a"
    /\ last.result["a"] = <<TRUE>> /\ last.trace["a"] = <<TRUE>>
    /\ KeysOf(items[1]) = {"b"}
    /\ get_item(items[1], "b").close_callback # Nil
    /\ TtlElapsed(get_item(items[1], "b"), now)

\* C32: get_item(k) returns the item stored at k, or none, and changes
\* nothing: no entry is removed, an expired one included, no close callback is
\* invoked, no strategy stage run and no expiration_time altered, with and
\* without refresh_on_get.
C32_GetItemIsPure ==
    [][\A k \in Keys :
          CalledOn("get_item", k) =>
             /\ items' = items
             /\ last'.ret = Before(k)
             /\ \A j \in Keys : last'.closes[j] = <<>> /\ last'.trace[j] = <<>>
      ]_vars

\* get_item("a") of a Registry with refresh_on_get has returned the item of
\* "a", which has a callback and whose ttl has elapsed; it is still stored
C32_Witness ==
    /\ conf[1].refresh_on_get
    /\ last.op = "get_item" /\ last.key = "a"
    /\ get_item(items[1], "a") # NoItem
    /\ last.ret = get_item(items[1], "a")
    /\ get_item(items[1], "a").close_callback # Nil
    /\ TtlElapsed(get_item(items[1], "a"), now)

====
